---------------------------- MODULE Spec2Model ----------------------------
(***************************************************************************)
(* RSI mean-reversion bot: the trading cycle of trading_engine.py          *)
(* (trade_once / loop_forever) and of main.py (run), against a brokerage   *)
(* account whose orders fill asynchronously.                               *)
(*                                                                         *)
(* Units.  Share quantities are counted in 1/QtyDen of a share, so that a  *)
(* fractional position (the result of a notional order) is an integer.     *)
(* Money is counted in cents; 0.95 * cash is counted in 1/100 cent.        *)
(* An RSI value is kept as the pair (g, l) of summed gains and losses of   *)
(* its window, RSI = 100 * g / (g + l), and compared exactly.              *)
(***************************************************************************)
EXTENDS Integers, Sequences, FiniteSets, Bags, TLC

(* ------------------------------ bounds -------------------------------- *)
\* how many leading symbols of WATCHLIST a run trades
NumSymbols == 2
\* how many orders the broker keeps open at once; it rejects any further one
MaxOpen == 2
\* how many closes at the end of a series differ from the flat prefix
MaxTail == 2
\* the largest average gain and average loss of the RSI values given to
\* decide_action: 3 and 7 give an RSI of exactly 30, 7 and 3 of exactly 70
MaxAvg == 7
\* by how many days the last bar of a frame given to last_completed_daily_row
\* can be dated after the current UTC day
MaxAhead == 1

(* -------------------- configuration: trading_engine.py ---------------- *)
WATCHLIST == <<"SPY", "QQQ", "AAPL", "MSFT">>
RSI_PERIOD == 14
RSI_LOW == 30
RSI_HIGH == 70
\* USD, the default of the environment variable
TRADE_NOTIONAL_USD == 100

Symbols == SubSeq(WATCHLIST, 1, NumSymbols)
SymbolSet == {Symbols[k] : k \in 1..Len(Symbols)}

\* pos.qty is a decimal string: the model counts it in 1/QtyDen of a share
QtyDen == 2
\* the quantities the broker can report for a position, in units: 0, 1/2, 1 and
\* 3/2 shares
Units == 0..3

(* ------------------------------- helpers ------------------------------ *)
Min(a, b) == IF a <= b THEN a ELSE b
Max(a, b) == IF a >= b THEN a ELSE b

RECURSIVE SumSeq(_)
SumSeq(s) == IF s = <<>> THEN 0 ELSE Head(s) + SumSeq(Tail(s))

(* -------------------------- RSI values -------------------------------- *)
None == [k |-> "none"]
NaN == [k |-> "nan"]
Num(g, l) == [k |-> "num", g |-> g, l |-> l]

\* v <= thr and v >= thr for a float RSI value; every comparison with NaN is false
RsiLE(v, thr) == v.k = "num" /\ 100 * v.g <= thr * (v.g + v.l)
RsiGE(v, thr) == v.k = "num" /\ 100 * v.g >= thr * (v.g + v.l)

(* ---------------------- trading_engine.rsi ---------------------------- *)
\* series.diff(): NaN at the first index, modelled by the guard k >= 2
gain(series, k) ==
    IF k >= 2 /\ series[k] - series[k-1] > 0 THEN series[k] - series[k-1] ELSE 0
loss(series, k) ==
    IF k >= 2 /\ series[k] - series[k-1] < 0 THEN series[k-1] - series[k] ELSE 0

\* rolling(period, min_periods=period).mean() times period, at index k >= period
gain_sma(series, period, k) ==
    SumSeq([j \in 1..period |-> gain(series, k - period + j)])
loss_sma(series, period, k) ==
    SumSeq([j \in 1..period |-> loss(series, k - period + j)])

\* 100 - 100/(1 + gain_sma/loss_sma): NaN before the window is full and for 0/0,
\* 100 for x/0 with x > 0 (rs = inf)
rsi(series, period) ==
    [k \in 1..Len(series) |->
        IF k < period THEN NaN
        ELSE LET g == gain_sma(series, period, k)
                 l == loss_sma(series, period, k)
             IN  IF g = 0 /\ l = 0 THEN NaN ELSE Num(g, l)]

(* ------------------------- data frames -------------------------------- *)
\* the current UTC day, as a day number; bars carry day numbers
today_utc == 0

Closes(df) == [k \in 1..Len(df) |-> df[k].c]

last_completed_daily_row(df) ==
    IF df = <<>> THEN None
    ELSE LET completed == SelectSeq(df, LAMBDA b : b.t < today_utc)
         IN  IF completed = <<>>
             THEN IF Len(df) >= 2 THEN df[Len(df) - 1] ELSE None
             ELSE completed[Len(completed)]

compute_rsi_no_guard(df, period) ==
    IF df = <<>> THEN None ELSE rsi(Closes(df), period)[Len(df)]

compute_rsi_on_df(df, period) ==
    IF df = <<>> \/ Len(df) < period + 1 THEN None
    ELSE rsi(Closes(df), period)[Len(df)]

\* a variant of the rules with strict comparisons
classify_strict(last_rsi, low, high) ==
    IF last_rsi = None \/ last_rsi = NaN THEN "SKIP"
    ELSE IF last_rsi.k = "num" /\ ~RsiGE(last_rsi, low) THEN "BUY"
    ELSE IF last_rsi.k = "num" /\ ~RsiLE(last_rsi, high) THEN "SELL"
    ELSE "HOLD"

\* the body of decide_action, lines 185-191, with the two module globals it
\* reads (RSI_LOW, RSI_HIGH) as parameters
classify(last_rsi, low, high) ==
    IF last_rsi = None \/ last_rsi = NaN THEN "SKIP"
    ELSE IF RsiLE(last_rsi, low) THEN "BUY"
    ELSE IF RsiGE(last_rsi, high) THEN "SELL"
    ELSE "HOLD"

decide_action(last_close, last_rsi) == classify(last_rsi, RSI_LOW, RSI_HIGH)


(* ------------------- the bars a fetch can return ---------------------- *)
Prices == 1..3
\* the close of the flat prefix of a series: the middle price
FlatClose == CHOOSE p \in Prices : (p - 1) \in Prices /\ (p + 1) \in Prices
BarCounts == {0, 1, RSI_PERIOD, RSI_PERIOD + 1, RSI_PERIOD + 2}
Tails == UNION {[1..k -> Prices] : k \in 0..MaxTail}

\* n daily bars on consecutive days, the last one dated today (live: the bar in
\* progress) or yesterday, sorted by t as fetch_daily_bars returns them
MakeBars(n, live, tail) ==
    [k \in 1..n |->
        [t |-> today_utc - (n - k) - (IF live THEN 0 ELSE 1),
         c |-> IF k <= n - Len(tail) THEN FlatClose ELSE tail[k - (n - Len(tail))]]]

DataFrames ==
    UNION {{MakeBars(n, live, tail) : live \in BOOLEAN,
                                      tail \in {x \in Tails : Len(x) <= n}} :
           n \in BarCounts}

\* the bars of df dated before today
Completed(df) == SelectSeq(df, LAMBDA b : b.t < today_utc)

\* what trade_once derives from one fetched frame (lines 203-215):
\*   stop   why the iteration ends before deciding ("" when it does not)
\*   action decide_action on the RSI of the whole frame, as the code calls it
\*   short  the frame has fewer than RSI_PERIOD + 1 closes
\*   live   the last bar is dated today
\*   ref    decide_action on the RSI of the completed bars alone
EngineCase(df) ==
    LET last_row == last_completed_daily_row(df)
        last_rsi == compute_rsi_on_df(df, RSI_PERIOD)
    IN  [stop   |-> IF df = <<>> THEN "empty"
                    ELSE IF last_row = None THEN "no_row" ELSE "",
         action |-> IF df = <<>> \/ last_row = None THEN ""
                    ELSE decide_action(last_row.c, last_rsi),
         short  |-> Len(df) < RSI_PERIOD + 1,
         live   |-> df # <<>> /\ df[Len(df)].t = today_utc,
         ref    |-> decide_action(0, compute_rsi_on_df(Completed(df), RSI_PERIOD))]

EngineCases == {EngineCase(df) : df \in DataFrames}

(* ------------------- configuration: config.py, main.py ----------------- *)
\* USD
MAX_TRADE_USD == 2000
\* percent (0.03 and 0.06 in config.py)
STOP_LOSS_PCT == 3
TAKE_PROFIT_PCT == 6
\* names main.py, strategy.py and risk.py read from config and config.py does
\* not define, with the values of its RSI_PERIOD, RSI_LOWER and RSI_UPPER
RSI_LEN == 14
BUY_RSI_MAX == 30
EXIT_RSI_MIN == 70

\* config.MAX_OPEN_POSITIONS, which config.py does not define either and has no
\* counterpart in it: the value the deployment gives it, read by risk.py and
\* the same for the life of the process
VARIABLE max_open_positions
MAX_OPEN_POSITIONS == max_open_positions
\* the values it is given here
OpenLimits == {1, 2}

(* --------------------------- strategy.py ------------------------------- *)
\* ewm(alpha=1/n, adjust=False).mean() of the clipped deltas, up to index k, as
\* the pair <<up, down>> times a common positive factor: y[2] = x[2],
\* y[t] = ((n-1) * y[t-1] + x[t]) / n.  Index 1 (delta NaN) gives NaN.
RECURSIVE ewm_pair(_, _, _)
ewm_pair(series, n, k) ==
    IF k = 2 THEN <<gain(series, 2), loss(series, 2)>>
    ELSE LET prev == ewm_pair(series, n, k - 1)
         IN  IF prev = <<0, 0>> THEN <<gain(series, k), loss(series, k)>>
             ELSE <<(n - 1) * prev[1] + gain(series, k),
                    (n - 1) * prev[2] + loss(series, k)>>

\* rs = up / (down + 1e-9), r = 100 - 100 / (1 + rs) at the last index:
\* r = 100 * up / (up + down + eps) with 0 < eps below the resolution of up and down
strategy_rsi(series, n) ==
    IF Len(series) < 2 THEN NaN
    ELSE LET p == ewm_pair(series, n, Len(series)) IN Num(p[1], p[2])

\* r <= thr and r >= thr, 0 < thr < 100; the eps makes >= strict
StratLE(r, thr) == r.k = "num" /\ (100 - thr) * r.g <= thr * r.l
StratGE(r, thr) == r.k = "num" /\ (100 - thr) * r.g > thr * r.l

generate_signal_from_df(df) ==
    LET r == strategy_rsi(Closes(df), RSI_LEN)
    IN  IF StratLE(r, BUY_RSI_MAX) THEN "BUY"
        ELSE IF StratGE(r, EXIT_RSI_MIN) THEN "SELL"
        ELSE "HOLD"

(* ------------------------------ risk.py -------------------------------- *)
should_enter(position_exists, open_positions_count) ==
    (~position_exists) /\ open_positions_count < MAX_OPEN_POSITIONS

\* variant of hit_stop_or_takeprofit without the test of the entry price
hit_stop_or_takeprofit_unguarded(entry_price, last_price) ==
    \/ 100 * last_price <= entry_price * (100 - STOP_LOSS_PCT)
    \/ 100 * last_price >= entry_price * (100 + TAKE_PROFIT_PCT)

hit_stop_or_takeprofit(entry_price, last_price) ==
    IF entry_price <= 0 THEN FALSE
    ELSE IF 100 * last_price <= entry_price * (100 - STOP_LOSS_PCT) THEN TRUE
    ELSE IF 100 * last_price >= entry_price * (100 + TAKE_PROFIT_PCT) THEN TRUE
    ELSE FALSE

\* variant of BuyNotional without the per-trade cap
BuyNotional_uncapped(cash_cents) == 95 * cash_cents

(* ---------------------- main.py: sizing a BUY -------------------------- *)
\* min(cash * 0.95, MAX_TRADE_USD) in 1/100 cent, for cash in cents
BuyNotional(cash_cents) == Min(95 * cash_cents, MAX_TRADE_USD * 10000)

\* round(notional, 2), in cents: to the nearest cent, ties to the even cent
RoundCents(x) ==
    LET q == x \div 100
        r == x % 100
    IN  IF r < 50 THEN q
        ELSE IF r > 50 THEN q + 1
        ELSE IF q % 2 = 0 THEN q ELSE q + 1

\* variant of Viable: every size is taken as an order
Viable_always(x) == TRUE

\* notional > 10
Viable(x) == x > 10 * 10000

(* ------------------- the bars get_bars can return ---------------------- *)
RunPrices == Prices \cup {8}
RunBarCounts == {0, 1, 2, 3, RSI_LEN + 1}
RunTails == UNION {[1..k -> RunPrices] : k \in 0..MaxTail}
RunFrames ==
    UNION {{MakeBars(n, live, tail) : live \in BOOLEAN,
                                      tail \in {x \in RunTails : Len(x) <= n}} :
           n \in RunBarCounts}

\* what one iteration of run's for loop derives from a frame (lines 90-99)
RunCase(df) ==
    [stop       |-> IF df = <<>> THEN "empty" ELSE "",
     short      |-> Len(df) < RSI_LEN + 1,
     last_price |-> IF df = <<>> THEN 0 ELSE df[Len(df)].c,
     sig        |-> IF df = <<>> THEN "" ELSE generate_signal_from_df(df)]

RunCases == {RunCase(df) : df \in RunFrames}
\* average entry prices the broker can report, 0 for a position without cost
EntryPrices == {0, 2, 3}

(* ------------------------------ state --------------------------------- *)
VARIABLES
    mode,       \* the entry point: "once" / "loop" (trading_engine.main), "run" (main.run)
    args,       \* trading_engine.main: the flags --once and --loop
    keys,       \* trading_engine: API_KEY and API_SECRET are both set
    signal,     \* where the program was when a shutdown signal ended it ("" before)
    pc,         \* where the program is
    i,          \* index of the for loop over the symbols
    action,     \* trade_once: the action decided for the symbol in hand
    all_pos,    \* run: the symbols of the positions list_positions returned
    open_count, \* run: open_count
    iter,       \* run: the calls the current iteration of while True has made
    orders,     \* broker: bag of the open (unfilled) orders, each by symbol and side
    submitted,  \* per symbol, submit_order calls made in the current cycle
    visited,    \* indices of the for loop whose body ran in the current cycle
    rejected,   \* symbols whose submit_order raised in the current cycle
    failed,     \* index of the first iteration that hit a failure in the current
                \* cycle, 0 when none did
    seen,       \* what the last fetch of the current cycle showed
    last        \* what the last trading step of the current cycle did

vars == <<mode, args, keys, max_open_positions, signal, pc, i, action, all_pos,
          open_count, iter, orders, submitted, visited, rejected, failed, seen, last>>
fixed == <<mode, args, keys, max_open_positions, signal>>
engine == <<action, seen>>
runner == <<all_pos, open_count, iter>>
broker == <<orders>>

\* the cash the account can hold when it is looked at, cents: 10.00, 100.01 and
\* 5000.00 USD.  The process keeps no copy of it: it is drawn at each look
CashLevels == {1000, 10001, 500000}
\* what get_account can show to run: these, no cash, or a debit of 500.00 USD
RunCashLevels == CashLevels \cup {0, -50000}

NoSeen == [sym |-> "", short |-> FALSE, live |-> FALSE, action |-> "", ref |-> ""]
NoLast == [sym |-> "", short |-> FALSE, action |-> "", held |-> 0, qerr |-> FALSE,
           side |-> "", qty |-> 0, notional |-> 0, cash |-> 0, ok |-> FALSE,
           sized |-> FALSE]
\* paused   control.is_paused() returned true
\* gate     market_open read TRADE_ONLY_WHEN_MARKET_OPEN as true
\* clock    what get_clock gave ("" when it was not called)
\* bars     get_bars was called
\* listing  what list_positions did: "ok", "failed" ("" when it was not called)
\* held     the symbols the broker held when list_positions was called
\* account  get_account was called
\* cash0    the cash the first get_account of the iteration showed, cents
\* bought   the sum of the notionals of the BUY orders submitted, cents
NoIter == [paused |-> FALSE, gate |-> FALSE, clock |-> "", bars |-> FALSE,
           listing |-> "", held |-> {}, account |-> FALSE, cash0 |-> 0,
           bought |-> 0]

\* a variant of main that tests --loop first
main_loop_first(a) == IF a.loop THEN "loop" ELSE "once"

\* trading_engine.main, lines 257-265: the mode the flags select
main(a) == IF a.once THEN "once" ELSE IF a.loop THEN "loop" ELSE "once"

NoArgs == [once |-> FALSE, loop |-> FALSE]

\* main.py has no flags, and get_api does not look at the keys
Init ==
    /\ args \in [once : BOOLEAN, loop : BOOLEAN]
    /\ mode \in {main(args)} \cup (IF args = NoArgs THEN {"run"} ELSE {})
    /\ keys \in (IF mode = "run" THEN {TRUE} ELSE BOOLEAN)
    /\ max_open_positions \in (IF mode = "run" THEN OpenLimits ELSE {1})
    /\ signal = ""
    /\ pc = "start"
    /\ i = 1
    /\ action = ""
    /\ all_pos = {}
    /\ open_count = 0
    /\ iter = NoIter
    /\ orders = EmptyBag
    /\ submitted = [s \in SymbolSet |-> 0]
    /\ visited = {}
    /\ rejected = {}
    /\ failed = 0
    /\ seen = NoSeen
    /\ last = NoLast

(* ------------------------ orders and the broker ------------------------ *)
BuyOrder(sym, cents) == [symbol |-> sym, side |-> "buy", qty |-> 0, notional |-> cents]
SellOrder(sym, units) == [symbol |-> sym, side |-> "sell", qty |-> units, notional |-> 0]

\* what the book of open orders keeps of an order
Booked(order) == [symbol |-> order.symbol, side |-> order.side]

\* the broker executes an open order: it leaves the book.  The position and
\* the cash it changes are drawn when the process next asks for them
Fill ==
    /\ \E o \in BagToSet(orders) : orders' = orders (-) SetToBag({o})
    /\ UNCHANGED <<fixed, pc, i, engine, runner, submitted, failed, rejected, visited, last>>

\* the broker ends an open order unexecuted: a day order expires or is cancelled
Cancel ==
    /\ \E o \in BagToSet(orders) : orders' = orders (-) SetToBag({o})
    /\ UNCHANGED <<fixed, pc, i, engine, runner, submitted, failed, rejected, visited, last>>

\* submit_order returns (the order is open at the broker) or raises; the broker
\* keeps at most MaxOpen orders open
Accepts(ok) == ok => BagCardinality(orders) < MaxOpen

(* ------------------------- trading_engine.py --------------------------- *)
\* client.get_open_position raises when there is no position, and on any
\* transport or auth failure (fails); int(float(pos.qty)) truncates to shares
get_position_qty(held, fails) ==
    IF fails \/ held = 0 THEN 0 ELSE held \div QtyDen

place_buy_notional(symbol, usd_amount) == BuyOrder(symbol, usd_amount * 100)

place_sell_all(symbol, qty) ==
    IF qty <= 0 THEN None ELSE SellOrder(symbol, qty * QtyDen)

\* the first failure of the cycle, after an iteration of index i that failed or not
Failure(now) == IF failed = 0 /\ now THEN i ELSE failed

\* variants of SymbolExcept: the failed symbol is tried again; the loop is left
SymbolExcept_retry(k) == k
SymbolExcept_abort(k) == Len(Symbols) + 1

\* the index the for loop goes to after the except clause of lines 238-239
SymbolExcept(k) == k + 1

\* lines 76-79 and 82-86: both raise RuntimeError when a key is missing
get_market_client(k) == IF ~k THEN "RuntimeError" ELSE "client"

\* a variant of get_trading_client without the check of the keys
get_trading_client_unchecked(k) == "client"

get_trading_client(k) == IF ~k THEN "RuntimeError" ELSE "client"

\* trade_once, lines 198-199: get_trading_client is called outside every try,
\* so its RuntimeError leaves trade_once, loop_forever and main
TradeOnceStart ==
    /\ mode \in {"once", "loop"}
    /\ pc = "start"
    /\ pc' = IF get_trading_client(keys) = "RuntimeError" THEN "crashed" ELSE "fetch"
    /\ i' = 1
    /\ submitted' = [s \in SymbolSet |-> 0]
    /\ failed' = 0
    /\ rejected' = {}
    /\ visited' = {}
    /\ seen' = NoSeen
    /\ last' = NoLast
    /\ UNCHANGED <<fixed, action, runner, broker>>

\* one iteration of the for loop, lines 203-215: fetch_daily_bars raises
FetchRaises ==
    /\ mode \in {"once", "loop"}
    /\ pc = "fetch"
    /\ i <= Len(Symbols)
    /\ failed' = Failure(TRUE)
    /\ visited' = visited \cup {i}
    /\ i' = SymbolExcept(i)
    /\ seen' = NoSeen
    /\ last' = NoLast
    /\ UNCHANGED <<fixed, pc, action, runner, broker, submitted, rejected>>

\* lines 203-215: the frame is empty or has no completed row (continue), or
\* the action is decided
FetchAndDecide ==
    /\ mode \in {"once", "loop"}
    /\ pc = "fetch"
    /\ i <= Len(Symbols)
    /\ get_market_client(keys) = "client"
    /\ \E case \in EngineCases :
          /\ seen' = [sym |-> Symbols[i], short |-> case.short, live |-> case.live,
                      action |-> case.action, ref |-> case.ref]
          /\ IF case.stop # ""
             THEN /\ i' = i + 1
                  /\ UNCHANGED <<pc, action>>
             ELSE /\ action' = case.action
                  /\ pc' = "trade"
                  /\ UNCHANGED i
    /\ last' = NoLast
    /\ visited' = visited \cup {i}
    /\ UNCHANGED <<fixed, runner, broker, submitted, failed, rejected>>

\* lines 217-236, up to the call of submit_order: the position query and the
\* order.  held is the quantity the broker holds for the symbol when it is
\* asked, qerr a failure of the query, cash the cash of the account then, which
\* trade_once never reads
Trade ==
    /\ mode \in {"once", "loop"}
    /\ pc = "trade"
    /\ \E held \in Units, qerr \in BOOLEAN, cash \in CashLevels :
          /\ failed' = Failure(qerr)
          /\ LET symbol == Symbols[i]
                 pos_qty == get_position_qty(held, qerr)
                 order == IF action = "BUY" /\ pos_qty = 0
                               THEN place_buy_notional(symbol, TRADE_NOTIONAL_USD)
                          ELSE IF action = "SELL" /\ pos_qty > 0
                               THEN place_sell_all(symbol, pos_qty)
                          ELSE None
             IN  IF order = None
                 THEN /\ last' = [NoLast EXCEPT !.sym = symbol, !.short = seen.short,
                                                !.action = action, !.held = held,
                                                !.qerr = qerr]
                      /\ i' = i + 1
                      /\ pc' = "fetch"
                      /\ UNCHANGED submitted
                 ELSE /\ last' = [sym |-> symbol, short |-> seen.short,
                                  action |-> action, held |-> held, qerr |-> qerr,
                                  side |-> order.side,
                                  qty |-> order.qty, notional |-> order.notional,
                                  cash |-> IF order.side = "buy" THEN cash ELSE 0,
                                  ok |-> FALSE]
                      /\ submitted' = [submitted EXCEPT ![symbol] = @ + 1]
                      /\ pc' = "submit"
                      /\ UNCHANGED i
    /\ action' = ""
    /\ seen' = NoSeen
    /\ UNCHANGED <<fixed, runner, broker, visited, rejected>>

\* the order whose submit_order call is in flight
Pending == [symbol |-> last.sym, side |-> last.side, qty |-> last.qty,
            notional |-> last.notional]

\* lines 222 and 229: client.submit_order returns (ok) or raises, and the
\* except clauses of lines 224 and 231 go on to the next symbol
Submit ==
    /\ mode \in {"once", "loop"}
    /\ pc = "submit"
    /\ \E ok \in BOOLEAN :
          /\ Accepts(ok)
          /\ last' = [last EXCEPT !.ok = ok]
          /\ orders' = IF ok THEN orders (+) SetToBag({Booked(Pending)}) ELSE orders
          /\ rejected' = IF ok THEN rejected ELSE rejected \cup {last.sym}
          /\ failed' = Failure(~ok)
          /\ i' = IF ok THEN i + 1 ELSE SymbolExcept(i)
    /\ pc' = "fetch"
    /\ UNCHANGED <<fixed, engine, runner, submitted, visited>>

\* line 241, then main (lines 257-265) returns or loop_forever sleeps; the
\* locals of the last iteration are dead
RoundDone ==
    /\ mode \in {"once", "loop"}
    /\ pc = "fetch"
    /\ i > Len(Symbols)
    /\ pc' = IF mode = "once" THEN "exit" ELSE "sleep"
    /\ last' = NoLast
    /\ UNCHANGED <<fixed, i, engine, runner, broker, submitted, failed, rejected, visited>>

\* loop_forever, lines 246-248: the sleep ends and the next trade_once starts;
\* nothing of the finished cycle is kept
Sleep ==
    /\ mode = "loop"
    /\ pc = "sleep"
    /\ pc' = "start"
    /\ i' = 1
    /\ submitted' = [s \in SymbolSet |-> 0]
    /\ failed' = 0
    /\ rejected' = {}
    /\ visited' = {}
    /\ last' = NoLast
    /\ UNCHANGED <<fixed, engine, runner, broker>>

(* ------------------------------ main.py -------------------------------- *)
\* variant of RunPaused without the wait and the continue of lines 66-67: the
\* paused iteration goes on to the market gate and the bars
RunPaused_falls_through ==
    /\ mode = "run"
    /\ pc = "start"
    /\ pc' = "bars"
    /\ iter' = [NoIter EXCEPT !.paused = TRUE]
    /\ UNCHANGED <<fixed, i, engine, all_pos, open_count, broker, submitted, failed, rejected,
                   visited, last>>

\* run, lines 64-67: control.is_paused() is true
RunPaused ==
    /\ mode = "run"
    /\ pc = "start"
    /\ pc' = "sleep"
    /\ iter' = [NoIter EXCEPT !.paused = TRUE]
    /\ UNCHANGED <<fixed, i, engine, all_pos, open_count, broker, submitted, failed, rejected,
                   visited, last>>

\* market_open, lines 50-56: gate is config.TRADE_ONLY_WHEN_MARKET_OPEN, clock
\* what get_clock gives, "raise" when it raises
Clocks == {"open", "closed", "raise"}

\* variants of market_open: the clock is never believed closed; a clock query
\* that raises counts as closed
market_open_always(gate, clock) == TRUE
market_open_failclosed(gate, clock) == ~gate \/ clock = "open"

market_open(gate, clock) ==
    IF ~gate THEN TRUE
    ELSE IF clock = "raise" THEN TRUE
    ELSE clock = "open"

\* what market_open can get from get_clock: it calls it only with the gate on
Asked(gate) == IF gate THEN Clocks ELSE {""}

\* lines 69-72: the market is closed
RunMarketClosed ==
    /\ mode = "run"
    /\ pc = "start"
    /\ \E gate \in BOOLEAN : \E clock \in Asked(gate) :
          /\ ~market_open(gate, clock)
          /\ iter' = [NoIter EXCEPT !.gate = gate, !.clock = clock]
    /\ pc' = "sleep"
    /\ UNCHANGED <<fixed, i, engine, all_pos, open_count, broker, submitted, failed, rejected,
                   visited, last>>

\* line 69: market_open returns true and run goes on to get_bars
RunMarketOpen ==
    /\ mode = "run"
    /\ pc = "start"
    /\ \E gate \in BOOLEAN : \E clock \in Asked(gate) :
          /\ market_open(gate, clock)
          /\ iter' = [NoIter EXCEPT !.gate = gate, !.clock = clock]
    /\ pc' = "bars"
    /\ UNCHANGED <<fixed, i, engine, all_pos, open_count, broker, submitted, failed, rejected,
                   visited, last>>

\* lines 75-79: get_bars returns no bars (its request failed, or no symbol has
\* any).  What the gate saw is not used again and not kept
RunNoBars ==
    /\ mode = "run"
    /\ pc = "bars"
    /\ pc' = "sleep"
    /\ iter' = [NoIter EXCEPT !.bars = TRUE]
    /\ UNCHANGED <<fixed, i, engine, all_pos, open_count, broker, submitted, failed, rejected,
                   visited, last>>

\* what the broker holds in the cycles in which list_positions raises and run
\* does not see it: nothing, or the last symbol of the watchlist
Unlisted == {{}, {Symbols[Len(Symbols)]}}

\* lines 75-87: get_bars returns bars, list_positions returns the positions
\* (listed) or raises, which leaves run with no positions whatever the broker
\* holds (held).  What the gate saw is not used again and not kept
RunBegin ==
    /\ mode = "run"
    /\ pc = "bars"
    /\ \E listed \in BOOLEAN, held \in SUBSET SymbolSet :
          /\ ~listed => held \in Unlisted
          /\ all_pos' = (IF listed THEN held ELSE {})
          /\ open_count' = Cardinality(all_pos')
          /\ iter' = [NoIter EXCEPT !.bars = TRUE, !.held = held,
                                    !.listing = IF listed THEN "ok" ELSE "failed"]
    /\ pc' = "symbols"
    /\ i' = 1
    /\ submitted' = [s \in SymbolSet |-> 0]
    /\ failed' = 0
    /\ rejected' = {}
    /\ visited' = {}
    /\ last' = NoLast
    /\ UNCHANGED <<fixed, engine, broker>>

\* lines 89-91: the symbol has no entry in bars_map, or an empty frame.  The
\* entries of bars_map are read once each and never change: the model draws
\* each when the loop reaches it
RunSkip ==
    /\ mode = "run"
    /\ pc = "symbols"
    /\ i <= Len(Symbols)
    /\ i' = i + 1
    /\ last' = NoLast
    /\ visited' = visited \cup {i}
    /\ UNCHANGED <<fixed, pc, engine, runner, broker, submitted, failed, rejected>>

\* variants of RunExcept: the for loop goes on with the same symbol; the
\* exception leaves run
RunExcept_retry == "symbols"
RunExcept_crash == "crashed"

\* where run goes when an iteration of the for loop raises: the except clause
\* of lines 119-120, then the sleep of line 122
RunExcept == "sleep"

\* the tests of lines 102 and 110: the branch one iteration of the for loop
\* takes, "exit" (lines 103-107), "entry" (lines 111-117) or neither
RunBranch(has_pos, sig, entry_price, last_price, count) ==
    IF has_pos /\ (sig = "SELL" \/ hit_stop_or_takeprofit(entry_price, last_price))
    THEN "exit"
    ELSE IF sig = "BUY" /\ should_enter(has_pos, count) THEN "entry"
    ELSE ""

\* lines 93-117, one iteration of the for loop on a frame with closes, up to
\* the call of submit_order.
\*   qty, entry_price  the fields of all_pos[sym], read here
\*   acct, cash        get_account returns (or raises), and the cash it shows
\* last.sized tells that line 112 computed a notional
RunSymbol ==
    /\ mode = "run"
    /\ pc = "symbols"
    /\ i <= Len(Symbols)
    /\ \E case \in {c \in RunCases : c.stop = ""} :
       LET sym == Symbols[i]
           last_price == case.last_price
           has_pos == sym \in all_pos
           sig == case.sig
       IN  \E qty \in (IF has_pos THEN Units \ {0} ELSE {0}),
              entry_price \in (IF has_pos THEN EntryPrices ELSE {0}) :
           LET branch == RunBranch(has_pos, sig, entry_price, last_price, open_count)
               exit == branch = "exit"
               enter == branch = "entry"
               seenrow == [NoLast EXCEPT !.sym = sym, !.short = case.short,
                                         !.action = sig, !.held = qty]
           IN  IF exit
               THEN /\ last' = [seenrow EXCEPT !.side = "sell", !.qty = qty]
                    /\ submitted' = [submitted EXCEPT ![sym] = @ + 1]
                    /\ pc' = "submit"
                    /\ UNCHANGED <<i, iter, failed>>
               ELSE IF enter
               THEN \E acct \in BOOLEAN, cash \in RunCashLevels :
                    LET notional == BuyNotional(cash) IN
                    /\ iter' = [iter EXCEPT !.account = TRUE,
                                             !.cash0 = IF acct /\ ~iter.account
                                                       THEN cash ELSE @]
                    /\ IF ~acct
                       THEN /\ last' = seenrow
                            /\ pc' = RunExcept
                            /\ failed' = Failure(TRUE)
                            /\ UNCHANGED <<i, submitted>>
                       ELSE IF ~Viable(notional)
                       THEN /\ last' = [seenrow EXCEPT !.sized = TRUE, !.cash = cash]
                            /\ i' = i + 1
                            /\ UNCHANGED <<pc, submitted, failed>>
                       ELSE /\ last' = [seenrow EXCEPT !.side = "buy", !.cash = cash,
                                           !.sized = TRUE,
                                           !.notional = RoundCents(notional)]
                            /\ submitted' = [submitted EXCEPT ![sym] = @ + 1]
                            /\ pc' = "submit"
                            /\ UNCHANGED <<i, failed>>
               ELSE /\ last' = seenrow
                    /\ i' = i + 1
                    /\ UNCHANGED <<pc, iter, submitted, failed>>
    /\ visited' = visited \cup {i}
    /\ UNCHANGED <<fixed, engine, all_pos, open_count, broker, rejected>>

\* lines 103-107 and 114-117: api.submit_order returns (ok) or raises
RunSubmit ==
    /\ mode = "run"
    /\ pc = "submit"
    /\ \E ok \in BOOLEAN :
          /\ Accepts(ok)
          /\ last' = [last EXCEPT !.ok = ok]
          /\ IF ok
             THEN /\ orders' = orders (+) SetToBag({Booked(Pending)})
                  /\ open_count' = IF last.side = "sell" THEN Max(0, open_count - 1)
                                                         ELSE open_count + 1
                  /\ iter' = [iter EXCEPT !.bought = @ + last.notional]
                  /\ i' = i + 1
                  /\ pc' = "symbols"
                  /\ UNCHANGED <<failed, rejected>>
             ELSE /\ pc' = RunExcept
                  /\ failed' = Failure(TRUE)
                  /\ rejected' = rejected \cup {last.sym}
                  /\ UNCHANGED <<orders, open_count, iter, i>>
    /\ UNCHANGED <<fixed, engine, all_pos, submitted, visited>>

\* the for loop is over: line 122
RunCycleEnd ==
    /\ mode = "run"
    /\ pc = "symbols"
    /\ i > Len(Symbols)
    /\ pc' = "sleep"
    /\ last' = NoLast
    /\ UNCHANGED <<fixed, i, engine, runner, broker, submitted, failed, rejected, visited>>

\* time.sleep(config.LOOP_SECONDS) ends (lines 66, 71, 78, 122): while True;
\* nothing of the finished iteration is kept
RunSleep ==
    /\ mode = "run"
    /\ pc = "sleep"
    /\ pc' = "start"
    /\ i' = 1
    /\ all_pos' = {}
    /\ open_count' = 0
    /\ iter' = NoIter
    /\ submitted' = [s \in SymbolSet |-> 0]
    /\ failed' = 0
    /\ rejected' = {}
    /\ visited' = {}
    /\ last' = NoLast
    /\ UNCHANGED <<fixed, engine, broker>>

\* a shutdown signal (SIGINT, SIGTERM) reaches the process: neither loop
\* installs a handler or catches KeyboardInterrupt (except Exception does not),
\* so the process ends wherever it is; a submit_order call in flight then has
\* reached the broker or not.  Nothing of the process is kept
Interrupt ==
    /\ mode \in {"loop", "run"}
    /\ pc \notin {"killed", "crashed"}
    /\ signal' = pc
    /\ pc' = "killed"
    /\ IF pc = "submit"
       THEN \E reached \in BOOLEAN :
               /\ Accepts(reached)
               /\ orders' = IF reached THEN orders (+) SetToBag({Booked(Pending)})
                                       ELSE orders
       ELSE UNCHANGED orders
    /\ i' = 1
    /\ action' = ""
    /\ all_pos' = {}
    /\ open_count' = 0
    /\ iter' = NoIter
    /\ submitted' = [s \in SymbolSet |-> 0]
    /\ visited' = {}
    /\ rejected' = {}
    /\ failed' = 0
    /\ seen' = NoSeen
    /\ last' = NoLast
    /\ UNCHANGED <<mode, args, keys, max_open_positions>>

Next ==
    \/ TradeOnceStart
    \/ FetchRaises
    \/ FetchAndDecide
    \/ Trade
    \/ Submit
    \/ RoundDone
    \/ Sleep
    \/ RunPaused
    \/ RunMarketClosed
    \/ RunMarketOpen
    \/ RunNoBars
    \/ RunBegin
    \/ RunSkip
    \/ RunSymbol
    \/ RunSubmit
    \/ RunCycleEnd
    \/ RunSleep
    \/ Fill
    \/ Cancel
    \/ Interrupt

Spec == Init /\ [][Next]_vars

\* the steps of the process itself: the interpreter runs the next statement,
\* every broker call returns or raises and every time.sleep ends.  The broker's
\* fills and cancellations and the arrival of a signal are not the process's
Program ==
    \/ TradeOnceStart
    \/ FetchRaises
    \/ FetchAndDecide
    \/ Trade
    \/ Submit
    \/ RoundDone
    \/ Sleep
    \/ RunPaused
    \/ RunMarketClosed
    \/ RunMarketOpen
    \/ RunNoBars
    \/ RunBegin
    \/ RunSkip
    \/ RunSymbol
    \/ RunSubmit
    \/ RunCycleEnd
    \/ RunSleep

\* the process keeps running while it has a next statement
FairSpec == Init /\ [][Next]_vars /\ WF_vars(Program)

(* ------------------- decide_action as a pure function ------------------ *)
\* the RSI values decide_action can be given: None, NaN, and 100 * g / (g + l)
\* for averages g and l of gains and losses that are not both zero
RsiValues ==
    {None, NaN} \cup ({Num(g, l) : g \in 0..MaxAvg, l \in 0..MaxAvg} \ {Num(0, 0)})

\* the program's thresholds (lines 45-46), and thresholds that cross or meet,
\* which alone show the order of the two comparisons
Thresholds == {<<RSI_LOW, RSI_HIGH>>, <<RSI_HIGH, RSI_LOW>>, <<50, 50>>}

InitDecide ==
    /\ mode = "decide"
    /\ max_open_positions = 1
    /\ pc = "call"
    /\ \E last_close \in Prices, last_rsi \in RsiValues, t \in Thresholds :
          seen = [close |-> last_close, rsi |-> last_rsi, low |-> t[1], high |-> t[2]]
    /\ action = ""
    /\ args = NoArgs
    /\ keys = TRUE
    /\ signal = ""
    /\ i = 1
    /\ all_pos = {}
    /\ open_count = 0
    /\ iter = NoIter
    /\ orders = EmptyBag
    /\ submitted = [s \in SymbolSet |-> 0]
    /\ visited = {}
    /\ rejected = {}
    /\ failed = 0
    /\ last = NoLast

\* the call of line 214
DecideAction ==
    /\ mode = "decide"
    /\ pc = "call"
    /\ action' = classify(seen.rsi, seen.low, seen.high)
    /\ pc' = "return"
    /\ UNCHANGED <<fixed, i, seen, runner, broker, submitted, visited, rejected, failed, last>>

SpecDecide == InitDecide /\ [][DecideAction]_vars

(* ------- rsi and last_completed_daily_row as pure functions ------------ *)
\* the frame df with every bar dated d days later
Shift(df, d) == [k \in 1..Len(df) |-> [t |-> df[k].t + d, c |-> df[k].c]]

\* the frames the two functions are given: any frame sorted by t, of the
\* lengths and closes of DataFrames and RunFrames, its last bar dated
\* yesterday, today or up to MaxAhead days after today
FrameInputs == {Shift(df, d) : df \in DataFrames \cup RunFrames, d \in 0..MaxAhead}

InitFrame ==
    /\ mode = "frame"
    /\ max_open_positions = 1
    /\ pc = "call"
    /\ \E df \in FrameInputs : seen = [df |-> df]
    /\ action = ""
    /\ args = NoArgs
    /\ keys = TRUE
    /\ signal = ""
    /\ i = 1
    /\ all_pos = {}
    /\ open_count = 0
    /\ iter = NoIter
    /\ orders = EmptyBag
    /\ submitted = [s \in SymbolSet |-> 0]
    /\ visited = {}
    /\ rejected = {}
    /\ failed = 0
    /\ last = NoLast

\* trading_engine.rsi (lines 63-72) and strategy.rsi (lines 5-10) at the last
\* index of the closes of a frame, and the signal of lines 12-20
CallRsi ==
    /\ mode = "frame"
    /\ pc = "call"
    /\ seen.df # <<>>
    /\ last' = [engine   |-> rsi(Closes(seen.df), RSI_PERIOD)[Len(seen.df)],
                strategy |-> strategy_rsi(Closes(seen.df), RSI_LEN),
                sig      |-> generate_signal_from_df(seen.df)]
    /\ pc' = "rsi"
    /\ UNCHANGED <<fixed, i, engine, runner, broker, submitted, visited, rejected, failed>>

\* the call of line 208
CallLastCompleted ==
    /\ mode = "frame"
    /\ pc = "call"
    /\ last' = [row |-> last_completed_daily_row(seen.df)]
    /\ pc' = "row"
    /\ UNCHANGED <<fixed, i, engine, runner, broker, submitted, visited, rejected, failed>>

NextFrame ==
    \/ CallRsi
    \/ CallLastCompleted

SpecFrame == InitFrame /\ [][NextFrame]_vars

(* --------- the branch one iteration of run takes, as a function -------- *)
\* what generate_signal_from_df returns (strategy.py, lines 16-20)
Signals == {"BUY", "SELL", "HOLD"}

\* the values lines 94-99 and the open_count of the cycle give to the tests of
\* lines 102 and 110; entry_price is 0.0 for a symbol that is not held
InitRunStep ==
    /\ mode = "step"
    /\ pc = "call"
    /\ max_open_positions \in OpenLimits
    /\ \E has_pos \in BOOLEAN, sig \in Signals, last_price \in RunPrices,
          count \in 0..NumSymbols :
          \E entry_price \in (IF has_pos THEN EntryPrices ELSE {0}) :
             seen = [has_pos |-> has_pos, sig |-> sig, entry_price |-> entry_price,
                     last_price |-> last_price, count |-> count]
    /\ action = ""
    /\ args = NoArgs
    /\ keys = TRUE
    /\ signal = ""
    /\ i = 1
    /\ all_pos = {}
    /\ open_count = 0
    /\ iter = NoIter
    /\ orders = EmptyBag
    /\ submitted = [s \in SymbolSet |-> 0]
    /\ visited = {}
    /\ rejected = {}
    /\ failed = 0
    /\ last = NoLast

\* lines 102 and 110
TakeBranch ==
    /\ mode = "step"
    /\ pc = "call"
    /\ last' = [branch |-> RunBranch(seen.has_pos, seen.sig, seen.entry_price,
                                     seen.last_price, seen.count)]
    /\ pc' = "branch"
    /\ UNCHANGED <<fixed, i, engine, runner, broker, submitted, visited, rejected, failed>>

SpecRunStep == InitRunStep /\ [][TakeBranch]_vars

(* ------------------------------- claims -------------------------------- *)
\* C1: in one execution of trade_once, and in one iteration of main.run, at most
\* one order (BUY or SELL) is submitted for each symbol, whatever the bars, the
\* positions and the failures
C1_OneOrderPerSymbol == \A s \in SymbolSet : submitted[s] <= 1

\* a finished cycle that submitted an order for every symbol and met a failure
C1_Witness ==
    /\ pc \in {"sleep", "exit"}
    /\ failed # 0
    /\ \A s \in SymbolSet : submitted[s] = 1

\* C2: in continuous mode (loop_forever) no second order of a side is submitted
\* for a symbol while an earlier order of that side for it is still unfilled
C2_NoSecondOpenOrder ==
    mode = "loop" => \A o \in BagToSet(orders) : CopiesIn(o, orders) <= 1

\* C3: trade_once submits a BUY only when the position the broker holds for the
\* symbol is exactly 0 at the position query, fractional holdings and failed
\* queries included
C3_BuyOnlyWithoutPosition ==
    mode \in {"once", "loop"} /\ last.side = "buy" => last.held = 0

\* C4: a SELL of trade_once or main.run is for the entire quantity the broker
\* reports for the position, and only for a positive position
C4_SellsEntirePosition ==
    last.side = "sell" => last.held > 0 /\ last.qty = last.held

\* C5: in trade_once, when the last fetched bar is dated today, the action is
\* the one the bars dated before today give: the bar in progress has no influence
C5_BarInProgressIgnored ==
    mode \in {"once", "loop"} /\ seen.live /\ seen.action # ""
        => seen.action = seen.ref

\* C6: in trade_once a symbol whose frame has fewer than RSI_PERIOD + 1 closes
\* gets the action SKIP (the RSI is unavailable) and no order in that cycle
C6_ShortSeriesSkips ==
    mode \in {"once", "loop"} =>
        /\ (seen.short /\ seen.action # "" => seen.action = "SKIP")
        /\ (last.short => /\ last.action = "SKIP"
                          /\ last.side = ""
                          /\ submitted[last.sym] = 0)

\* trade_once went through its trading step for a short frame of a held symbol
C6_Witness ==
    /\ mode \in {"once", "loop"}
    /\ last.short
    /\ last.action = "SKIP"
    /\ last.held > 0

\* C7: in main.run a symbol whose frame has fewer than RSI_LEN + 1 closes never
\* yields BUY or SELL and never has an order submitted
C7_RunShortSeriesNoSignal ==
    mode = "run" /\ last.short => last.action \notin {"BUY", "SELL"} /\ last.side = ""

\* C8 as stated: every BUY of main.run has notional exactly
\* min(0.95 * cash, MAX_TRADE_USD)
C8_NotionalIsExactMin ==
    mode = "run" /\ last.side = "buy" => 100 * last.notional = BuyNotional(last.cash)

\* C8 amended: every BUY of main.run has notional min(0.95 * cash,
\* MAX_TRADE_USD) rounded to the cent, never above the per-trade cap and never
\* above the cash read from the account
C8_NotionalIsRoundedMin ==
    mode = "run" /\ last.side = "buy" =>
        /\ last.notional = RoundCents(BuyNotional(last.cash))
        /\ last.notional <= MAX_TRADE_USD * 100
        /\ last.notional <= last.cash

\* main.run submitted a BUY whose notional the rounding changed
C8_Witness ==
    /\ mode = "run"
    /\ last.side = "buy"
    /\ last.ok
    /\ 100 * last.notional # BuyNotional(last.cash)

\* C9: every BUY of trade_once has a notional not above the account cash at
\* the time of submission
C9_BuyWithinCash ==
    mode \in {"once", "loop"} /\ last.side = "buy" => last.notional <= last.cash

\* C10: in trade_once a failure on one symbol (fetch raising, position query
\* failing, order rejected) does not keep the other symbols from being
\* processed: the round ends with every symbol of the watchlist gone through
C10_RoundCompletes ==
    mode \in {"once", "loop"} /\ pc \in {"sleep", "exit"}
        => visited = 1..Len(Symbols)

\* a round whose first symbol failed and whose last symbol had its order accepted
C10_Witness ==
    /\ mode = "once"
    /\ pc = "exit"
    /\ failed = 1
    /\ submitted[Symbols[Len(Symbols)]] = 1
    /\ Symbols[Len(Symbols)] \notin rejected

\* C11: in a main.run cycle a failure on one symbol (submit_order or
\* get_account raising) does not keep the symbols after it from being
\* evaluated in the same cycle
C11_RunFailureIsolated ==
    mode = "run" /\ pc = "sleep" /\ visited # {}
        => visited = 1..Len(Symbols)

\* C12: when the position query for a symbol fails, no order is submitted for
\* that symbol in that cycle: in trade_once a failed get_open_position is
\* followed by no order for the symbol, and in main.run a failed list_positions
\* is followed by no order in the iteration
C12_FailedQueryAborts ==
    /\ mode \in {"once", "loop"} /\ last.qerr => last.side = ""
    /\ mode = "run" /\ iter.listing = "failed" => \A s \in SymbolSet : submitted[s] = 0

\* C13: an order whose submission failed is not submitted again in the same
\* cycle (a symbol with a failed submission has exactly one submission in the
\* cycle), and every submission is the outcome of the signal and the position
\* its own cycle found: a BUY only on the signal BUY with no position seen, a
\* SELL only on a position seen, in trade_once only on the signal SELL
C13_NoRetryInCycle ==
    /\ \A s \in rejected : submitted[s] = 1
    /\ last.side = "buy" => last.action = "BUY"
    /\ mode = "run" /\ last.side = "buy" => last.held = 0
    /\ last.side = "sell" => last.held > 0
    /\ mode \in {"once", "loop"} /\ last.side = "sell" => last.action = "SELL"

\* a cycle of loop_forever is over in which the order of the first symbol failed
C13_Witness ==
    /\ mode = "loop"
    /\ pc = "sleep"
    /\ Symbols[1] \in rejected
    /\ submitted[Symbols[1]] = 1
    /\ visited = 1..Len(Symbols)

\* C14: in continuous mode (loop_forever, main.run) started with its
\* credentials, no error of a symbol or of a cycle ends the loop: the process
\* never leaves the loop by an exception nor returns, and from every point,
\* that of a failure included, it comes to the start of a next cycle, again
\* and again for as long as no signal ends the process
C14_CyclesForever ==
    /\ [](mode \in {"loop", "run"} /\ keys => pc \notin {"crashed", "exit"})
    /\ []<>(mode \in {"loop", "run"} /\ keys => pc \in {"start", "killed"})

\* main.run waits after a cycle that an exception ended at its second symbol
C14_Witness ==
    /\ mode = "run"
    /\ pc = "sleep"
    /\ failed = 2
    /\ visited = {1, 2}

\* C15: in an iteration of main.run in which the gate is on and the clock says
\* closed, run fetches no bars, lists no positions, reads no account and submits
\* no order (the book gets no order), and goes to the wait; the wait ends and
\* run is at the top of the loop again, where the gate is asked again; an
\* iteration in which the clock says open goes on to get_bars, its next call
C15_ClosedMarketWaits ==
    /\ [](iter.gate /\ iter.clock = "closed"
            => /\ pc = "sleep"
               /\ ~iter.bars /\ iter.listing = "" /\ ~iter.account
               /\ visited = {}
               /\ \A s \in SymbolSet : submitted[s] = 0)
    /\ [][iter'.gate /\ iter'.clock = "closed"
            => \A o \in BagToSet(orders') : CopiesIn(o, orders') <= CopiesIn(o, orders)]_vars
    /\ []<>(iter.gate /\ iter.clock = "closed" => pc \in {"start", "killed"})
    /\ [](iter.gate /\ iter.clock = "open" => pc = "bars")
    /\ [][pc = "bars" => pc' = "bars" \/ iter'.bars \/ pc' = "killed"]_vars

\* main.run waits on a closed market while orders of earlier cycles are open
C15_Witness ==
    /\ mode = "run"
    /\ pc = "sleep"
    /\ iter.gate
    /\ iter.clock = "closed"
    /\ orders # EmptyBag

\* C16: when get_clock raises, market_open answers open and the iteration goes
\* on to fetch the bars as an open-market iteration does; with the gate off
\* the clock is not asked and the iteration goes on: the only iterations that
\* wait without fetching bars are the paused ones and those of a gate that is
\* on with a clock that says closed
C16_GateFailsOpen ==
    /\ iter.clock = "raise" => pc = "bars" /\ iter.gate
    /\ pc = "bars" /\ ~iter.gate => iter.clock = ""
    /\ pc = "bars" /\ iter.gate => iter.clock \in {"open", "raise"}
    /\ mode = "run" /\ pc = "sleep" /\ ~iter.paused /\ ~iter.bars
          => iter.gate /\ iter.clock = "closed"

\* main.run goes on to the bars after a clock query that raised
C16_Witness ==
    /\ mode = "run"
    /\ pc = "bars"
    /\ iter.gate
    /\ iter.clock = "raise"
    /\ orders # EmptyBag

\* C17: trading_engine.main with --once, with or without --loop, and with
\* neither flag runs trade_once once: it never sleeps nor starts a second
\* round, and with its credentials it returns after a round that went through
\* the whole watchlist, whatever failed in it; with --loop alone it runs
\* loop_forever, which never returns and starts round after round for as long
\* as no signal ends the process
C17_FlagsSelectOneMode ==
    /\ [](mode # "run" /\ (args.once \/ ~args.loop) => mode = "once")
    /\ [](mode # "run" /\ ~args.once /\ args.loop => mode = "loop")
    /\ [][mode = "once" => pc' # "sleep" /\ (pc # "start" => pc' # "start")]_vars
    /\ [](mode = "once" /\ pc = "exit" => visited = 1..Len(Symbols))
    /\ <>[](mode = "once" /\ keys => pc = "exit")
    /\ [](mode = "loop" => pc # "exit")
    /\ []<>(mode = "loop" /\ keys => pc \in {"start", "killed"})

\* main was given both flags and has returned from a round in which the order
\* of every symbol failed
C17_Witness ==
    /\ args = [once |-> TRUE, loop |-> TRUE]
    /\ mode = "once"
    /\ pc = "exit"
    /\ rejected = SymbolSet

\* C18: when the API key or the secret is missing, trade_once fails before its
\* first symbol: no bars are fetched, no position is queried and no order is
\* submitted, and the failure is not caught: loop_forever does not reach its
\* sleep nor a second round, the process ends
C18_MissingKeysFatal ==
    mode \in {"once", "loop"} /\ ~keys =>
        /\ pc \in {"start", "crashed", "killed"}
        /\ visited = {}
        /\ seen = NoSeen
        /\ last = NoLast
        /\ \A s \in SymbolSet : submitted[s] = 0
        /\ orders = EmptyBag

\* loop_forever has ended on the RuntimeError of the missing keys
C18_Witness ==
    /\ mode = "loop"
    /\ ~keys
    /\ pc = "crashed"

\* C19: a shutdown signal that reaches loop_forever or main.run never takes
\* effect while a submit_order call is in flight
C19_SignalSparesSubmission == signal # "submit"

\* C20: decide_action returns one of SKIP, BUY, SELL, HOLD for every input:
\* SKIP exactly when the RSI is None or NaN; BUY exactly when it is available
\* and <= the lower threshold, whether or not it is also >= the upper one;
\* SELL exactly when it is available, not <= the lower threshold and >= the
\* upper one; HOLD otherwise.  An RSI equal to a threshold meets it.  The
\* close has no part in the result
C20_DecideActionRules ==
    pc = "return" =>
        LET r == seen.rsi
            available == r # None /\ r # NaN
            le_low == available /\ 100 * r.g <= seen.low * (r.g + r.l)
            ge_high == available /\ 100 * r.g >= seen.high * (r.g + r.l)
        IN  /\ action \in {"SKIP", "BUY", "SELL", "HOLD"}
            /\ action = "SKIP" <=> ~available
            /\ action = "BUY" <=> le_low
            /\ action = "SELL" <=> ge_high /\ ~le_low
            /\ action = "HOLD" <=> available /\ ~le_low /\ ~ge_high
            /\ seen.low = RSI_LOW /\ seen.high = RSI_HIGH
                  => action = decide_action(seen.close, seen.rsi)

\* decide_action has returned BUY for an RSI of exactly RSI_LOW
C20_Witness ==
    /\ pc = "return"
    /\ seen.low = RSI_LOW
    /\ seen.high = RSI_HIGH
    /\ seen.rsi.k = "num"
    /\ 100 * seen.rsi.g = RSI_LOW * (seen.rsi.g + seen.rsi.l)
    /\ action = "BUY"

\* C21: for a series of at least period + 1 closes none of which is below the
\* one before it (the loss averaged over the window is 0, constant closes
\* included) trading_engine.rsi gives 100 at the last index, and strategy.rsi
\* gives a number above the BUY threshold, so that the signal is not BUY
C21_ZeroLossSaturates ==
    pc = "rsi" /\ Len(seen.df) >= RSI_PERIOD + 1
               /\ (\A k \in 2..Len(seen.df) : seen.df[k].c >= seen.df[k-1].c)
        => /\ last.engine.k = "num" /\ last.engine.l = 0 /\ last.engine.g > 0
           /\ last.strategy.k = "num"
           /\ (100 - BUY_RSI_MAX) * last.strategy.g > BUY_RSI_MAX * last.strategy.l
           /\ last.sig # "BUY"

\* C22: last_completed_daily_row returns the last row dated before the current
\* UTC day, and None when no row is dated before it
C22_LastRowBeforeToday ==
    pc = "row" =>
        LET before == {k \in 1..Len(seen.df) : seen.df[k].t < today_utc}
        IN  IF before = {} THEN last.row = None
            ELSE last.row = seen.df[CHOOSE k \in before : \A j \in before : j <= k]

\* C23: in main.run, when the notional sized for a BUY is not greater than
\* 10 USD (zero and negative cash included), no order is submitted for the
\* symbol, the loop goes on to the next symbol, and the step leaves open_count,
\* the submissions of the cycle and the order book as they were
C23_SmallNotionalNoOrder ==
    /\ [](mode = "run" /\ last.sized /\ BuyNotional(last.cash) <= 10 * 10000
            => /\ last.side = ""
               /\ submitted[last.sym] = 0
               /\ pc = "symbols")
    /\ [][mode = "run" /\ last'.sized /\ visited' # visited
              /\ BuyNotional(last'.cash) <= 10 * 10000
            => /\ open_count' = open_count
               /\ submitted' = submitted
               /\ orders' = orders
               /\ i' = i + 1]_vars

\* the first symbol was sized from no cash or a debit, and the loop is at the
\* second with the count it had
C23_Witness ==
    /\ mode = "run" /\ pc = "symbols" /\ i = 2
    /\ last.sized /\ last.cash <= 0 /\ last.side = ""
    /\ open_count = Cardinality(all_pos)

\* C24: within one cycle of main.run the notionals of the BUY orders submitted
\* sum to no more than the cash the account had when the cycle first looked at
\* it, whenever the look that sized the last of them showed no more cash than
\* the first
C24_BuysWithinCash ==
    mode = "run" /\ last.side = "buy" /\ last.ok /\ last.cash <= iter.cash0
        => iter.bought <= iter.cash0

\* C25: within one cycle of main.run, the symbols the broker held when the
\* cycle began and the cycle did not sell, together with those it bought, are
\* never more than the larger of MAX_OPEN_POSITIONS and the number held when
\* the cycle began, cycles whose position listing failed included
C25_HeldOrBoughtWithinLimit ==
    mode = "run" /\ pc \in {"symbols", "sleep"} =>
        LET done   == {s \in SymbolSet : submitted[s] > 0 /\ s \notin rejected}
            sold   == done \cap all_pos
            bought == done \ all_pos
        IN  Cardinality((iter.held \ sold) \cup bought)
                <= Max(MAX_OPEN_POSITIONS, Cardinality(iter.held))

\* C26: in main.run, for a symbol of the position snapshot, the iteration takes
\* the branch that submits a SELL exactly when the signal is SELL, or the entry
\* price is above 0 and the last price is at or below
\* entry * (1 - STOP_LOSS_PCT) or at or above entry * (1 + TAKE_PROFIT_PCT);
\* otherwise it takes neither branch and submits nothing, and it never takes
\* the branch that submits a BUY
C26_ExitExactlyOnSignalOrStops ==
    pc = "branch" /\ seen.has_pos =>
        LET stop == 100 * seen.last_price <= seen.entry_price * (100 - STOP_LOSS_PCT)
            take == 100 * seen.last_price >= seen.entry_price * (100 + TAKE_PROFIT_PCT)
            due  == seen.sig = "SELL" \/ (seen.entry_price > 0 /\ (stop \/ take))
        IN  /\ last.branch = "exit" <=> due
            /\ ~due => last.branch = ""
            /\ last.branch # "entry"

\* a held symbol whose signal is BUY is sold on its stop although the count is
\* below the limit
C26_Witness ==
    /\ pc = "branch" /\ seen.has_pos /\ seen.sig = "BUY"
    /\ seen.count < MAX_OPEN_POSITIONS
    /\ seen.entry_price > 0
    /\ 100 * seen.last_price <= seen.entry_price * (100 - STOP_LOSS_PCT)
    /\ last.branch = "exit"

\* C27: in an iteration of main.run in which control.is_paused() is true, run
\* asks no clock, fetches no bars, lists no positions, reads no account and
\* submits no order (the book gets no order), and goes to the wait; the wait
\* ends at the top of the loop, where the flag is asked again, and an iteration
\* in which it is false goes on to the market gate and, when that is open, to
\* the bars
C27_PausedIterationIdles ==
    /\ [](mode = "run" /\ iter.paused
            => /\ pc = "sleep"
               /\ ~iter.gate /\ iter.clock = ""
               /\ ~iter.bars /\ iter.listing = "" /\ ~iter.account
               /\ visited = {}
               /\ \A s \in SymbolSet : submitted[s] = 0)
    /\ [][iter'.paused
            => \A o \in BagToSet(orders') : CopiesIn(o, orders') <= CopiesIn(o, orders)]_vars
    /\ [][iter.paused /\ pc' # pc => pc' \in {"start", "killed"} /\ ~iter'.paused]_vars
    /\ []<>(~iter.paused)
    /\ [][mode = "run" /\ pc = "start" /\ pc' \notin {"start", "killed"} /\ ~iter'.paused
            => IF market_open(iter'.gate, iter'.clock) THEN pc' = "bars"
                                                       ELSE pc' = "sleep"]_vars

\* main.run waits in a paused iteration while orders of earlier cycles are open
C27_Witness ==
    /\ mode = "run"
    /\ pc = "sleep"
    /\ iter.paused
    /\ orders # EmptyBag

=============================================================================
